---- MODULE Spec2Model ----
(***************************************************************************)
(* Offline-resilience core of the extension: the connectivity monitor      *)
(* (OfflineDetector), the durable request queue and offline-analytics      *)
(* store (OfflineStorage), the background sync engine (BackgroundSync)     *)
(* and the offline-aware gateway (OfflineAwareAPI).                        *)
(*                                                                         *)
(* JavaScript runs the handlers on one thread; a handler is suspended at   *)
(* every await on the network, on a timer or on IndexedDB.  Each action    *)
(* below is one run-to-suspension piece of a handler.                      *)
(***************************************************************************)
EXTENDS Integers, Sequences, FiniteSets, TLC

\* ------------------------------------------------------------------ bounds
NumPasses == 2      \* syncNow() invocations that may overlap
NumCalls == 2       \* gateway calls that may overlap
MaxClock == 1       \* Date.now() takes the values 0..MaxClock
MaxRnd == 0         \* values of the random id suffix: 0..MaxRnd
MaxQueue == 2       \* request-queue entries (stored, or about to be stored)
MaxAnalytics == 2   \* offline-analytics records (stored, or about to be)
MaxStored == 2      \* cached explanations (stored, or about to be)
MaxTracked == 1     \* events waiting in AnalyticsService.queue
MaxTokens == 3      \* tokens a streamed response is made of, at most
MaxLoads == 3       \* loadCache() calls in flight, the constructor's included

\* ------------------------------------------------------- program constants
MAX_RETRIES == 3

Passes == 1..NumPasses
Calls == 1..NumCalls
Times == 0..MaxClock
Rnds == 0..MaxRnd

VARIABLES
  isOffline,        \* OfflineDetector.isOffline
  now,              \* Date.now()
  syncInterval,     \* BackgroundSync.syncInterval is armed
  startupTimer,     \* the setTimeout(syncNow, 2000) of initialize() is pending
  isSyncing,        \* BackgroundSync.isSyncing
  pass,             \* pass[p]: the syncNow() invocation p and where it stands
  requestQueue,     \* object store 'requestQueue' (keyPath id)
  offlineAnalytics, \* object store 'offlineAnalytics' (autoIncrement)
  call,             \* call[c]: a gateway call and where it stands
  authToken,        \* chrome.storage.sync 'auth_token' is present
  responseCache,    \* chrome.storage.local 'api:<url>' -> timestamp, or -1
  explanations,     \* object store 'explanations' (autoIncrement), by key
  memCache,         \* CacheService.cache, newest first
  analyticsQueue,   \* AnalyticsService.queue: events waiting for the next flush
  signal,           \* the AbortSignal of createStreamCanceller()
  stream,           \* the streamChatResponse() call and where it stands
  initialized,      \* CacheService.initialized
  persisted,        \* chrome.storage.local 'cachedExplanations'
  loads,            \* loadCache() calls whose storage read is pending, oldest first
  loaded,           \* loadCache() calls that have assigned this.cache and whose
                    \* callers are still to resume, oldest first
  out               \* what the last step let the outside see: a value returned
                    \* to a caller, statuses published, a response consumed

vars == <<isOffline, now, syncInterval, startupTimer, isSyncing, pass,
          requestQueue, offlineAnalytics, call, authToken, responseCache,
          explanations, memCache, analyticsQueue, signal, stream,
          initialized, persisted, loads, loaded, out>>

syncVars == <<syncInterval, startupTimer, isSyncing, pass>>
gatewayVars == <<call, authToken, responseCache, explanations>>
storeVars == <<requestQueue, offlineAnalytics>>
cacheVars == <<memCache>>
trackVars == <<analyticsQueue>>
streamVars == <<signal, stream>>
loadVars == <<initialized, persisted, loads, loaded>>

\* --------------------------------------------------------------- helpers
Max(a, b) == IF a >= b THEN a ELSE b

\* ------------------------------------------------------------ request queue
\* The id `${type}-${Date.now()}-${random}` as the triple it is built from.
MakeId(type, ts, rnd) == [type |-> type, ts |-> ts, rnd |-> rnd]

\* Strings compare by code unit: "analytics" < "explanation" < "rating".
TypeRank(type) ==
  CASE type = "analytics" -> 0
    [] type = "explanation" -> 1
    [] type = "rating" -> 2

\* IndexedDB key order on the id strings.  The timestamps of one run have the
\* same number of digits, so they compare as numbers.
KeyLess(a, b) ==
  \/ TypeRank(a.type) < TypeRank(b.type)
  \/ a.type = b.type /\ a.ts < b.ts
  \/ a.type = b.type /\ a.ts = b.ts /\ a.rnd < b.rnd

RECURSIVE SortByKey(_)
SortByKey(S) ==
  IF S = {} THEN <<>>
  ELSE LET first == CHOOSE e \in S : \A o \in S \ {e} : KeyLess(e.id, o.id)
       IN <<first>> \o SortByKey(S \ {first})

QueueIds(Q) == {e.id : e \in Q}

\* Size from which queueRequest() warns that the queue is full (50), scaled down.
MAX_QUEUE_SIZE == 1

\* store.add(queuedRequest): the count check above it (count >= MAX_QUEUE_SIZE)
\* only logs a warning, so the record is added whatever the size.
QueueRequest(Q, type, url, method, body, ts, rnd) ==
  Q \cup {[id |-> MakeId(type, ts, rnd), type |-> type, url |-> url,
           method |-> method, body |-> body, timestamp |-> ts, retries |-> 0]}

\* store.getAll(): every record, in key order.
GetQueuedRequests(Q) == SortByKey(Q)

\* store.delete(id): no error when the id is absent.
RemoveFromQueue(Q, id) == {e \in Q : e.id # id}

\* A variant of UpdateRetryCount that loses the increment.
UpdateRetryCountLost(Q, id) == Q

\* store.get(id), retries += 1, store.put; nothing when the id is absent.
UpdateRetryCount(Q, id) ==
  {IF e.id = id THEN [e EXCEPT !.retries = e.retries + 1] ELSE e : e \in Q}

\* ------------------------------------------------------------- sync engine
EmptyResult == [success |-> 0, failed |-> 0, errors |-> <<>>]

IdlePass ==
  [pc |-> "idle", queue |-> <<>>, i |-> 0, result |-> EmptyResult,
   attempted |-> <<>>, analytics |-> <<>>, readFailed |-> FALSE]

Status(s, synced, failed) == [status |-> s, synced |-> synced, failed |-> failed]

NoOut == [kind |-> "none"]

\* No streamChatResponse() call is running.
IdleStream ==
  [pc |-> "idle", signal |-> FALSE, linked |-> FALSE, aborted |-> FALSE,
   fullResponse |-> 0]

\* Invocation p of syncNow() returns r to its caller, having published statuses.
Returned(p, why, r, statuses) ==
  [kind |-> "return", p |-> p, why |-> why, result |-> r, published |-> statuses]

\* A variant of SyncInProgress that never sees the pass in flight.
SyncInProgressNever == FALSE

\* if (this.isSyncing) ...
SyncInProgress == isSyncing

\* A variant of StillOffline that takes the gateway for online.
StillOfflineNever(off) == FALSE

\* if (offlineDetector.isCurrentlyOffline()) ..., off being the monitor's answer
StillOffline(off) == off

\* The slot a new invocation runs in: the lowest one that holds no invocation.
FreeSlot(p) == pass[p].pc = "idle" /\ \A o \in Passes : o < p => pass[o].pc # "idle"

\* syncNow() up to its first await.
SyncNowBody(p, off) ==
  IF SyncInProgress
  THEN /\ out' = Returned(p, "busy", EmptyResult, <<>>)
       /\ UNCHANGED <<isSyncing, pass>>
  ELSE IF StillOffline(off)
  THEN /\ out' = Returned(p, "offline", EmptyResult, <<>>)
       /\ UNCHANGED <<isSyncing, pass>>
  ELSE /\ isSyncing' = TRUE
       /\ out' = [kind |-> "started", p |-> p,
                  published |-> <<Status("syncing", 0, 0)>>]
       /\ pass' = [pass EXCEPT ![p] = [IdlePass EXCEPT !.pc = "getQueue"]]

\* The statuses syncNow() publishes for a result: three independent ifs.
FinalStatuses(r) ==
  (IF r.success > 0 THEN <<Status("success", r.success, 0)>> ELSE <<>>)
  \o (IF r.failed > 0 THEN <<Status("partial", r.success, r.failed)>> ELSE <<>>)
  \o (IF r.success = 0 /\ r.failed = 0 THEN <<Status("idle", 0, 0)>> ELSE <<>>)

\* syncNow() from the return of syncOfflineAnalytics() to its own return.
FinishPass(p, r) ==
  /\ out' = Returned(p, "pass", r, FinalStatuses(r))
  /\ isSyncing' = FALSE
  /\ pass' = [pass EXCEPT ![p] = IdlePass]

\* The loop of syncQueuedRequests() moves to the entry after queue[i].
NextItem(ps) ==
  [ps EXCEPT !.i = ps.i + 1,
             !.pc = IF ps.i < Len(ps.queue) THEN "item" ELSE "analytics"]

\* A variant of MaxRetriesReached that allows one attempt more.
MaxRetriesReachedLate(request) == request.retries > MAX_RETRIES

\* if (request.retries >= MAX_RETRIES)
MaxRetriesReached(request) == request.retries >= MAX_RETRIES

\* A caller (the Sync button, OfflineAwareAPI.syncNow, forceSyncAll) calls syncNow().
SyncNow(p) ==
  /\ FreeSlot(p)
  /\ SyncNowBody(p, isOffline)
  /\ UNCHANGED <<isOffline, now, syncInterval, startupTimer>>
  /\ UNCHANGED storeVars
  /\ UNCHANGED gatewayVars
  /\ UNCHANGED cacheVars
  /\ UNCHANGED trackVars
  /\ UNCHANGED streamVars
  /\ UNCHANGED loadVars

\* The setInterval callback of startSync().
TimerFire(p) ==
  /\ syncInterval
  /\ FreeSlot(p)
  /\ IF ~isOffline /\ ~isSyncing
     THEN SyncNowBody(p, isOffline)
     ELSE /\ out' = NoOut
          /\ UNCHANGED <<isSyncing, pass>>
  /\ UNCHANGED <<isOffline, now, syncInterval, startupTimer>>
  /\ UNCHANGED storeVars
  /\ UNCHANGED gatewayVars
  /\ UNCHANGED cacheVars
  /\ UNCHANGED trackVars
  /\ UNCHANGED streamVars
  /\ UNCHANGED loadVars

\* The setTimeout(() => this.syncNow(), 2000) of initialize().
StartupSync(p) ==
  /\ startupTimer
  /\ FreeSlot(p)
  /\ startupTimer' = FALSE
  /\ SyncNowBody(p, isOffline)
  /\ UNCHANGED <<isOffline, now, syncInterval>>
  /\ UNCHANGED storeVars
  /\ UNCHANGED gatewayVars
  /\ UNCHANGED cacheVars
  /\ UNCHANGED trackVars
  /\ UNCHANGED streamVars
  /\ UNCHANGED loadVars

\* A variant of SetOffline whose listener starts no sync pass on reconnection.
SetOfflineSilent(offline, p) ==
  /\ isOffline # offline
  /\ FreeSlot(p)
  /\ isOffline' = offline
  /\ syncInterval' = (syncInterval /\ ~offline)
  /\ out' = NoOut
  /\ UNCHANGED <<isSyncing, pass, now, startupTimer>>
  /\ UNCHANGED storeVars
  /\ UNCHANGED gatewayVars
  /\ UNCHANGED cacheVars
  /\ UNCHANGED trackVars
  /\ UNCHANGED streamVars
  /\ UNCHANGED loadVars

\* OfflineDetector.setOffline(offline) on a browser event or a probe result,
\* with the listener BackgroundSync.initialize() subscribed.
SetOffline(offline, p) ==
  /\ isOffline # offline
  /\ FreeSlot(p)
  /\ isOffline' = offline
  /\ IF ~offline
     THEN /\ SyncNowBody(p, offline)
          /\ UNCHANGED syncInterval
     ELSE /\ syncInterval' = FALSE
          /\ out' = NoOut
          /\ UNCHANGED <<isSyncing, pass>>
  /\ UNCHANGED <<now, startupTimer>>
  /\ UNCHANGED storeVars
  /\ UNCHANGED gatewayVars
  /\ UNCHANGED cacheVars
  /\ UNCHANGED trackVars
  /\ UNCHANGED streamVars
  /\ UNCHANGED loadVars

\* getQueueStats().total, which getOfflineStats() reports as the queue size.
QueueTotal(Q) == Len(GetQueuedRequests(Q))

\* syncQueuedRequests(): getQueuedRequests() resolves with the queue, or
\* rejects (the store cannot be read); the outer catch then logs the error and
\* returns the empty result, and syncNow() goes on to the offline analytics.
GetQueue(p, readable) ==
  /\ pass[p].pc = "getQueue"
  /\ LET queue == GetQueuedRequests(requestQueue)
     IN pass' = [pass EXCEPT ![p] =
                   IF readable
                   THEN [@ EXCEPT !.queue = queue, !.i = 1,
                                  !.pc = IF Len(queue) = 0 THEN "analytics" ELSE "item"]
                   ELSE [@ EXCEPT !.readFailed = TRUE, !.pc = "analytics"]]
  /\ out' = NoOut
  /\ UNCHANGED <<isOffline, now, syncInterval, startupTimer, isSyncing>>
  /\ UNCHANGED storeVars
  /\ UNCHANGED gatewayVars
  /\ UNCHANGED cacheVars
  /\ UNCHANGED trackVars
  /\ UNCHANGED streamVars
  /\ UNCHANGED loadVars

\* One turn of the loop, up to its await: the entry is dropped, slept on or sent.
Item(p) ==
  /\ pass[p].pc = "item"
  /\ LET ps == pass[p]
         request == ps.queue[ps.i]
     IN IF MaxRetriesReached(request)
        THEN /\ requestQueue' = RemoveFromQueue(requestQueue, request.id)
             /\ pass' = [pass EXCEPT ![p] =
                  NextItem([ps EXCEPT
                    !.result = [success |-> ps.result.success,
                                failed |-> ps.result.failed + 1,
                                errors |-> Append(ps.result.errors,
                                   [id |-> request.id, error |-> "Max retries exceeded"])]])]
        ELSE /\ pass' = [pass EXCEPT ![p] =
                  IF request.retries > 0
                  THEN [ps EXCEPT !.pc = "sleep"]
                  ELSE [ps EXCEPT !.pc = "fetch",
                                  !.attempted = Append(ps.attempted, request.id)]]
             /\ UNCHANGED requestQueue
  /\ out' = NoOut
  /\ UNCHANGED <<isOffline, now, syncInterval, startupTimer, isSyncing>>
  /\ UNCHANGED offlineAnalytics
  /\ UNCHANGED gatewayVars
  /\ UNCHANGED cacheVars
  /\ UNCHANGED trackVars
  /\ UNCHANGED streamVars
  /\ UNCHANGED loadVars

\* sleep(delay) is over: the request is sent.
Wake(p) ==
  /\ pass[p].pc = "sleep"
  /\ pass' = [pass EXCEPT ![p] =
       [@ EXCEPT !.pc = "fetch",
                 !.attempted = Append(@, pass[p].queue[pass[p].i].id)]]
  /\ out' = NoOut
  /\ UNCHANGED <<isOffline, now, syncInterval, startupTimer, isSyncing>>
  /\ UNCHANGED storeVars
  /\ UNCHANGED gatewayVars
  /\ UNCHANGED cacheVars
  /\ UNCHANGED trackVars
  /\ UNCHANGED streamVars
  /\ UNCHANGED loadVars

\* What the network makes of a replayed request: a 2xx response, another
\* response, or no response at all (fetch rejects).
Responses == {"ok", "http", "neterr"}

\* The queue after the replay of entry id ended with resp.
QueueAfterDelivery(Q, id, resp) ==
  IF resp = "ok" THEN RemoveFromQueue(Q, id) ELSE UpdateRetryCount(Q, id)

\* The pass result after the replay of entry id ended with resp.
ResultAfterDelivery(r, id, resp) ==
  IF resp = "ok"
  THEN [r EXCEPT !.success = r.success + 1]
  ELSE [r EXCEPT !.failed = r.failed + 1,
                 !.errors = Append(r.errors, [id |-> id, error |-> resp])]

\* fetch() settles and the entry is removed or its retry count updated.
Deliver(p, resp) ==
  /\ pass[p].pc = "fetch"
  /\ LET ps == pass[p]
         request == ps.queue[ps.i]
     IN /\ requestQueue' = QueueAfterDelivery(requestQueue, request.id, resp)
        /\ pass' = [pass EXCEPT ![p] =
             NextItem([ps EXCEPT
                        !.result = ResultAfterDelivery(ps.result, request.id, resp)])]
        /\ out' = [kind |-> "delivered", p |-> p, id |-> request.id, resp |-> resp]
  /\ UNCHANGED <<isOffline, now, syncInterval, startupTimer, isSyncing>>
  /\ UNCHANGED offlineAnalytics
  /\ UNCHANGED gatewayVars
  /\ UNCHANGED cacheVars
  /\ UNCHANGED trackVars
  /\ UNCHANGED streamVars
  /\ UNCHANGED loadVars

\* The event analyticsService.track() pushes for a stored record.
Tracked(analytic) ==
  [event |-> analytic.event, properties |-> analytic.properties,
   offline_tracked |-> TRUE, original_timestamp |-> analytic.timestamp]

\* analyticsService.track(event, properties) for every record of analytics, in
\* order: each is pushed on the queue; a batch is never full here.
RECURSIVE TrackAll(_, _)
TrackAll(queue, analytics) ==
  IF analytics = <<>> THEN queue
  ELSE TrackAll(Append(queue, Tracked(Head(analytics))), Tail(analytics))

\* The events waiting in AnalyticsService.queue stay below a batch.
TrackRoom == Len(analyticsQueue) + Len(offlineAnalytics) <= MaxTracked

\* syncOfflineAnalytics(): getOfflineAnalytics() resolves; every record is
\* handed to analyticsService.track(), which catches its own errors.
Analytics(p) ==
  /\ pass[p].pc = "analytics"
  /\ TrackRoom
  /\ LET ps == pass[p]
         analytics == offlineAnalytics
     IN IF Len(analytics) = 0
        THEN /\ FinishPass(p, ps.result)
             /\ UNCHANGED analyticsQueue
        ELSE /\ pass' = [pass EXCEPT ![p] =
                  [ps EXCEPT !.pc = "clear", !.analytics = analytics,
                             !.result = [ps.result EXCEPT
                                !.success = ps.result.success + Len(analytics)]]]
             /\ analyticsQueue' = TrackAll(analyticsQueue, analytics)
             /\ out' = NoOut
             /\ UNCHANGED isSyncing
  /\ UNCHANGED <<isOffline, now, syncInterval, startupTimer>>
  /\ UNCHANGED storeVars
  /\ UNCHANGED gatewayVars
  /\ UNCHANGED cacheVars
  /\ UNCHANGED streamVars
  /\ UNCHANGED loadVars

\* AnalyticsService.flush(), from the batch timer: the queue is emptied; the
\* events are dropped when the monitor says offline or the response is not
\* 2xx, sent with a 2xx response, and pushed back when fetch rejects.
Flush(resp) ==
  /\ analyticsQueue # <<>>
  /\ analyticsQueue' = IF ~isOffline /\ resp = "neterr" THEN analyticsQueue ELSE <<>>
  /\ out' = [kind |-> "flush", resp |-> IF isOffline THEN "offline" ELSE resp]
  /\ UNCHANGED <<isOffline, now>>
  /\ UNCHANGED syncVars
  /\ UNCHANGED storeVars
  /\ UNCHANGED gatewayVars
  /\ UNCHANGED cacheVars
  /\ UNCHANGED streamVars
  /\ UNCHANGED loadVars

\* clearOfflineAnalytics() resolves and syncNow() returns.
ClearAnalytics(p) ==
  /\ pass[p].pc = "clear"
  /\ offlineAnalytics' = <<>>
  /\ FinishPass(p, pass[p].result)
  /\ UNCHANGED <<isOffline, now, syncInterval, startupTimer>>
  /\ UNCHANGED requestQueue
  /\ UNCHANGED gatewayVars
  /\ UNCHANGED cacheVars
  /\ UNCHANGED trackVars
  /\ UNCHANGED streamVars
  /\ UNCHANGED loadVars

\* Date.now() advances.
Tick ==
  /\ now < MaxClock
  /\ now' = now + 1
  /\ out' = NoOut
  /\ UNCHANGED <<isOffline>>
  /\ UNCHANGED syncVars
  /\ UNCHANGED storeVars
  /\ UNCHANGED gatewayVars
  /\ UNCHANGED cacheVars
  /\ UNCHANGED trackVars
  /\ UNCHANGED streamVars
  /\ UNCHANGED loadVars

\* ---------------------------------------------------------------- gateway
Urls == {"/api/chat", "/api/analytics/track", "/api/explanations/rate", "/api/user"}

\* "none": the call gives no method.
Methods == {"GET", "POST", "none"}

\* A body is absent, a JSON text (what the caller passes and what fetch sends),
\* the value the text parses to (what the queue stores), or null.
NoBody == [enc |-> "none", v |-> "none"]
NullBody == [enc |-> "null", v |-> "none"]
Payloads == {"p1"}
JsonText(v) == [enc |-> "json", v |-> v]
JsonValue(v) == [enc |-> "obj", v |-> v]
Bodies == {NoBody} \cup {JsonText(v) : v \in Payloads}

\* JSON.parse on a JSON text, JSON.stringify on a value.
JSONparse(b) == JsonValue(b.v)
JSONstringify(b) == JsonText(b.v)

\* What the server makes of a gateway call.
HttpResponses == {"200", "401", "500", "neterr"}

\* Date.now() - cached.timestamp < 3600000, in clock steps: a cached response
\* is fresh during the clock step it was written in.
RESPONSE_TTL == 1

\* OfflineAwareAPI.getRequestType: url.includes(...) in this order.
GetRequestType(url) ==
  CASE url = "/api/chat" -> "explanation"
    [] url = "/api/analytics/track" -> "analytics"
    [] url = "/api/explanations/rate" -> "rating"
    [] OTHER -> "explanation"

\* fetchOptions.method === 'GET' || !fetchOptions.method
IsGet(method) == method = "GET" \/ method = "none"

\* queueIfOffline && fetchOptions.method !== 'GET'
QueueIfOffline(qio, method) == qio /\ method # "GET"

\* OfflineAwareAPI.queueRequest(url, options)
GatewayQueueRequest(Q, url, method, body, ts, rnd) ==
  QueueRequest(Q, GetRequestType(url), url,
               IF method = "none" THEN "POST" ELSE method,
               IF body = NoBody THEN NullBody ELSE JSONparse(body), ts, rnd)

\* getCachedResponse(url) finds a fresh entry.
CachedResponse(cache, url, t) == cache[url] # -1 /\ t - cache[url] < RESPONSE_TTL

\* A variant of RequestOffline that queues nothing.
RequestOfflineUnqueued(url, method, qio, cache, t) ==
  IF IsGet(method) /\ CachedResponse(cache, url, t)
  THEN [outcome |-> "ok", data |-> "cache", enqueue |-> FALSE,
        clearToken |-> FALSE, cacheIt |-> FALSE]
  ELSE [outcome |-> "OFFLINE_NO_CACHE", data |-> "none", enqueue |-> FALSE,
        clearToken |-> FALSE, cacheIt |-> FALSE]

\* request() while the monitor reports offline.
RequestOffline(url, method, qio, cache, t) ==
  IF QueueIfOffline(qio, method)
  THEN [outcome |-> "QUEUED_OFFLINE", data |-> "none", enqueue |-> TRUE,
        clearToken |-> FALSE, cacheIt |-> FALSE]
  ELSE IF IsGet(method) /\ CachedResponse(cache, url, t)
  THEN [outcome |-> "ok", data |-> "cache", enqueue |-> FALSE,
        clearToken |-> FALSE, cacheIt |-> FALSE]
  ELSE [outcome |-> "OFFLINE_NO_CACHE", data |-> "none", enqueue |-> FALSE,
        clearToken |-> FALSE, cacheIt |-> FALSE]

\* The error thrown inside the try block of request() for a response.
Thrown(resp) ==
  CASE resp = "401" -> "UNAUTHORIZED"
    [] resp = "500" -> "HTTP_ERROR"
    [] resp = "neterr" -> "NETWORK_ERROR"

\* The catch block of request(): every error thrown in the try block lands here.
RequestCatch(url, method, qio, resp, cache, t) ==
  IF QueueIfOffline(qio, method)
  THEN [outcome |-> "QUEUED_NETWORK_ERROR", data |-> "none", enqueue |-> TRUE,
        clearToken |-> resp = "401", cacheIt |-> FALSE]
  ELSE IF IsGet(method) /\ CachedResponse(cache, url, t)
  THEN [outcome |-> "ok", data |-> "cache", enqueue |-> FALSE,
        clearToken |-> resp = "401", cacheIt |-> FALSE]
  ELSE [outcome |-> Thrown(resp), data |-> "none", enqueue |-> FALSE,
        clearToken |-> resp = "401", cacheIt |-> FALSE]

\* request() from the settling of fetch() on.
RequestOnline(url, method, qio, resp, cache, t) ==
  IF resp = "200"
  THEN [outcome |-> "ok", data |-> "network", enqueue |-> FALSE,
        clearToken |-> FALSE, cacheIt |-> IsGet(method)]
  ELSE RequestCatch(url, method, qio, resp, cache, t)

\* ------------------------------------------------------- explanation store
\* A normalized question is the sequence of its words (split(' ')); a question
\* as asked is its words and whether it is written in capitals with blanks
\* around it.
QA == <<"explain", "rocket", "engine", "thrust">>
QB == <<"explain", "rocket", "engine", "power">>
QD == <<"what", "is", "dns?">>
QE == <<"what", "are", "dns?">>
QR1 == <<"explain", "how", "rockets", "work">>
QR2 == <<"explain", "how", "rockets", "function">>
QR3 == <<"explain", "how", "rockets", "work", "today">>
QW == <<"what", "is", "the", "weather", "today">>
NoQuestion == <<"-">>

Asked(words, shout) == [words |-> words, shout |-> shout]

\* question.trim().toLowerCase()
Normalize(asked) == asked.words

\* w.length
WordLength(w) ==
  CASE w = "explain" -> 7 [] w = "rocket" -> 6 [] w = "engine" -> 6
    [] w = "thrust" -> 6 [] w = "power" -> 5 [] w = "what" -> 4
    [] w = "is" -> 2 [] w = "dns?" -> 4 [] w = "are" -> 3 [] w = "how" -> 3
    [] w = "rockets" -> 7 [] w = "work" -> 4 [] w = "function" -> 8
    [] w = "today" -> 5 [] w = "the" -> 3 [] w = "weather" -> 7 [] OTHER -> 1

\* Strings compare by code unit.
WordRank(w) ==
  CASE w = "-" -> 0 [] w = "are" -> 1 [] w = "dns?" -> 2 [] w = "engine" -> 3
    [] w = "explain" -> 4 [] w = "function" -> 5 [] w = "how" -> 6 [] w = "is" -> 7
    [] w = "power" -> 8 [] w = "rocket" -> 9 [] w = "rockets" -> 10
    [] w = "the" -> 11 [] w = "thrust" -> 12 [] w = "today" -> 13
    [] w = "weather" -> 14 [] w = "what" -> 15 [] w = "work" -> 16 [] OTHER -> 17

RECURSIVE QuestionLess(_, _)
QuestionLess(a, b) ==
  IF a = <<>> THEN b # <<>>
  ELSE IF b = <<>> THEN FALSE
  ELSE IF Head(a) = Head(b) THEN QuestionLess(Tail(a), Tail(b))
  ELSE WordRank(Head(a)) < WordRank(Head(b))

Tiers == {"5yo", "normal", "advanced"}

\* Capacity of the store (100) and the number of entries deleted when it is
\* reached (5), scaled down together; the expiry window (30 days) in clock
\* steps: an entry is live during the clock step it was written in.
MAX_EXPLANATIONS == 3
CACHE_EXPIRY == 0
CLEAN_COUNT == 2

\* new Set(q.split(' ').filter(w => w.length > 3))
SignificantWords(q) == {q[k] : k \in {j \in 1..Len(q) : WordLength(q[j]) > 3}}

\* calculateSimilarity(q1, q2), as the fraction <<numerator, denominator>>.
CalculateSimilarity(q1, q2) ==
  IF q1 = q2 THEN <<1, 1>>
  ELSE LET words1 == SignificantWords(q1)
           words2 == SignificantWords(q2)
       IN IF words1 = {} \/ words2 = {} THEN <<0, 1>>
          ELSE <<Cardinality(words1 \cap words2),
                 Max(Cardinality(words1), Cardinality(words2))>>

ScoreGreater(s, r) == s[1] * r[2] > r[1] * s[2]

\* score > 0.7
AboveThreshold(s) == 10 * s[1] > 7 * s[2]

\* Date.now() - item.cached_at > CACHE_EXPIRY
\* A variant of Expired under which no entry ever expires.
ExpiredNever(item, t) == FALSE

Expired(item, t) == t - item.cached_at > CACHE_EXPIRY

\* The keys of store E (a sequence in key order) in the order of the index
\* 'question': by question, then by key.
RECURSIVE QuestionIndex(_, _)
QuestionIndex(E, keys) ==
  IF keys = {} THEN <<>>
  ELSE LET first == CHOOSE k \in keys : \A o \in keys \ {k} :
                      \/ QuestionLess(E[k].question, E[o].question)
                      \/ E[k].question = E[o].question /\ k < o
       IN <<first>> \o QuestionIndex(E, keys \ {first})

\* The keys of store E in the order of the index 'timestamp': by cached_at,
\* then by key.
RECURSIVE TimestampIndex(_, _)
TimestampIndex(E, keys) ==
  IF keys = {} THEN <<>>
  ELSE LET first == CHOOSE k \in keys : \A o \in keys \ {k} :
                      \/ E[k].cached_at < E[o].cached_at
                      \/ E[k].cached_at = E[o].cached_at /\ k < o
       IN <<first>> \o TimestampIndex(E, keys \ {first})

\* The cursor loop of getCachedExplanation from position pos of the index on:
\* the key of the entry it resolves with, 0 for null.
RECURSIVE Cursor(_, _, _, _, _, _, _, _)
Cursor(E, order, pos, q, tier, t, bestMatch, bestScore) ==
  IF pos > Len(order) THEN bestMatch
  ELSE LET item == E[order[pos]]
           score == CalculateSimilarity(q, item.question)
       IN IF Expired(item, t)
          THEN Cursor(E, order, pos + 1, q, tier, t, bestMatch, bestScore)
          ELSE IF item.complexity_level # tier
          THEN Cursor(E, order, pos + 1, q, tier, t, bestMatch, bestScore)
          ELSE IF score[1] = score[2]
          THEN order[pos]
          ELSE IF ScoreGreater(score, bestScore) /\ AboveThreshold(score)
          THEN Cursor(E, order, pos + 1, q, tier, t, order[pos], score)
          ELSE Cursor(E, order, pos + 1, q, tier, t, bestMatch, bestScore)

\* getCachedExplanation(question, complexityLevel)
GetCachedExplanation(E, asked, tier, t) ==
  Cursor(E, QuestionIndex(E, 1..Len(E)), 1, Normalize(asked), tier, t,
         0, <<0, 1>>)

\* cleanOldExplanations(count): the first count entries of the timestamp index go.
CleanOldExplanations(E, count) ==
  LET order == TimestampIndex(E, 1..Len(E))
      gone == {order[k] : k \in 1..(IF count < Len(order) THEN count ELSE Len(order))}
      RECURSIVE Keep(_)
      Keep(k) == IF k > Len(E) THEN <<>>
                 ELSE (IF k \in gone THEN <<>> ELSE <<E[k]>>) \o Keep(k + 1)
  IN Keep(1)

\* A variant of CacheExplanation that stores nothing.
CacheExplanationDropped(E, asked, answer, tier, t) ==
  [store |-> E, settled |-> TRUE]

\* cacheExplanation(question, answer, complexityLevel).  Below the capacity
\* the entry is added.  At the capacity the oldest entries are deleted in a
\* transaction of their own, which starts only when the first transaction has
\* committed; the add is then issued on the first transaction's store, which
\* throws inside the then-callback: nothing is added and the promise that
\* cacheExplanation returned is never settled.
CacheExplanation(E, asked, answer, tier, t) ==
  LET explanation == [question |-> Normalize(asked), answer |-> answer,
                      complexity_level |-> tier, cached_at |-> t]
  IN IF Len(E) >= MAX_EXPLANATIONS
     THEN [store |-> CleanOldExplanations(E, CLEAN_COUNT), settled |-> FALSE]
     ELSE [store |-> Append(E, explanation), settled |-> TRUE]

\* clearExplanations(): store.clear()
ClearExplanations(E) == <<>>

\* ------------------------------------------------------------ CacheService
\* Capacity of CacheService (10), scaled down, and its expiry window (7 days)
\* in clock steps: an entry is live during the clock step it was written in.
MAX_CACHE_SIZE == 2
SERVICE_CACHE_EXPIRY == 0

\* CacheService.isExpired(item)
IsExpired(item, t) == t - item.cached_at > SERVICE_CACHE_EXPIRY

\* CacheService.isSimilar(q1, q2): overlap > 0.6
IsSimilar(q1, q2) ==
  LET words1 == SignificantWords(q1)
      words2 == SignificantWords(q2)
      smaller == IF Cardinality(words1) <= Cardinality(words2)
                 THEN Cardinality(words1) ELSE Cardinality(words2)
  IN IF words1 = {} \/ words2 = {} THEN FALSE
     ELSE 10 * Cardinality(words1 \cap words2) > 6 * smaller

\* CacheService.add(question, answer, complexityLevel)
CacheServiceAdd(M, asked, answer, tier, t) ==
  LET cached == [question |-> Normalize(asked), answer |-> answer,
                 complexity_level |-> tier, cached_at |-> t]
      others == SelectSeq(M, LAMBDA item :
                  ~(item.question = cached.question
                      /\ item.complexity_level = cached.complexity_level))
      all == <<cached>> \o others
  IN IF Len(all) > MAX_CACHE_SIZE THEN SubSeq(all, 1, MAX_CACHE_SIZE) ELSE all

\* this.cache.find(item => item.question === q && item.complexity_level === tier)
\* from position pos on: the position found, 0 for undefined.
RECURSIVE FindExact(_, _, _, _)
FindExact(M, q, tier, pos) ==
  IF pos > Len(M) THEN 0
  ELSE IF M[pos].question = q /\ M[pos].complexity_level = tier THEN pos
  ELSE FindExact(M, q, tier, pos + 1)

\* this.cache.find(item => same tier && !isExpired(item) && isSimilar(q, item.question))
RECURSIVE FindSimilar(_, _, _, _, _)
FindSimilar(M, q, tier, t, pos) ==
  IF pos > Len(M) THEN 0
  ELSE IF /\ M[pos].complexity_level = tier
          /\ ~IsExpired(M[pos], t)
          /\ IsSimilar(q, M[pos].question)
  THEN pos
  ELSE FindSimilar(M, q, tier, t, pos + 1)

\* CacheService.get(question, complexityLevel): the position of the entry it
\* returns, 0 for null.
CacheServiceGet(M, asked, tier, t) ==
  LET exactMatch == FindExact(M, Normalize(asked), tier, 1)
  IN IF exactMatch # 0 /\ ~IsExpired(M[exactMatch], t)
     THEN exactMatch
     ELSE FindSimilar(M, Normalize(asked), tier, t, 1)

\* CacheService.clear()
CacheServiceClear(M) == <<>>

\* CacheService.saveCache(): chrome.storage.local.set({[CACHE_KEY]: this.cache});
\* what is stored is the cache as it is when set() is called.
SaveCache(M) == M

\* CacheService.cleanExpiredItems(): this.cache without its expired items
CleanExpiredItems(M, t) == SelectSeq(M, LAMBDA item : ~IsExpired(item, t))

\* ---------------------------------------------------------- gateway calls
Events == {"e1"}
Answers == {"a1", "a2"}

IdleCall ==
  [pc |-> "idle", op |-> "none", url |-> "none", method |-> "none",
   body |-> NoBody, qio |-> FALSE, q |-> Asked(NoQuestion, FALSE),
   tier |-> "none", ev |-> "none"]

\* Call c, which was k, ends for its caller.  online: it went to the network,
\* and resp is what came back.
CallReturn(c, k, online, resp, outcome, data, fromCache) ==
  [kind |-> "call", c |-> c, op |-> k.op, url |-> k.url, method |-> k.method,
   body |-> k.body, qio |-> k.qio, q |-> k.q, tier |-> k.tier,
   online |-> online, resp |-> resp, outcome |-> outcome, data |-> data,
   fromCache |-> fromCache]

FreeCall(c) == call[c].pc = "idle" /\ \A o \in Calls : o < c => call[o].pc # "idle"

InFlight == {c \in Calls : call[c].pc = "fetch"}

\* Bounds of the model: a call is started only while what it may store fits.
QueueRoom == Cardinality(requestQueue) + Cardinality(InFlight) < MaxQueue
AnalyticsRoom ==
  Len(offlineAnalytics) + Cardinality({c \in InFlight : call[c].op = "trackEvent"})
    < MaxAnalytics

\* trackOfflineEvent(event, properties)
TrackOfflineEvent(A, ev, t) ==
  Append(A, [event |-> ev, properties |-> "props", timestamp |-> t])

\* OfflineAwareAPI.request(url, options), called directly.
Request(c, url, method, body, qio) ==
  /\ FreeCall(c)
  /\ QueueRoom
  /\ LET k == [IdleCall EXCEPT !.op = "request", !.url = url, !.method = method,
                               !.body = body, !.qio = qio]
         r == RequestOffline(url, method, qio, responseCache, now)
     IN IF isOffline
        THEN /\ \E rnd \in Rnds :
                  /\ r.enqueue => MakeId(GetRequestType(url), now, rnd) \notin QueueIds(requestQueue)
                  /\ requestQueue' =
                       IF r.enqueue
                       THEN GatewayQueueRequest(requestQueue, url, method, body, now, rnd)
                       ELSE requestQueue
             /\ out' = CallReturn(c, k, FALSE, "none", r.outcome, r.data, FALSE)
             /\ UNCHANGED call
        ELSE /\ call' = [call EXCEPT ![c] = [k EXCEPT !.pc = "fetch"]]
             /\ out' = NoOut
             /\ UNCHANGED requestQueue
  /\ UNCHANGED <<isOffline, now, offlineAnalytics, authToken, responseCache, explanations>>
  /\ UNCHANGED syncVars
  /\ UNCHANGED cacheVars
  /\ UNCHANGED trackVars
  /\ UNCHANGED streamVars
  /\ UNCHANGED loadVars

\* OfflineAwareAPI.rateExplanation(explanationId, rating)
RateExplanation(c, payload) ==
  /\ FreeCall(c)
  /\ QueueRoom
  /\ LET k == [IdleCall EXCEPT !.op = "rateExplanation",
                               !.url = "/api/explanations/rate", !.method = "POST",
                               !.body = JSONstringify(JsonValue(payload)), !.qio = TRUE]
     IN IF isOffline
        THEN /\ \E rnd \in Rnds :
                  /\ MakeId("rating", now, rnd) \notin QueueIds(requestQueue)
                  /\ requestQueue' = QueueRequest(requestQueue, "rating", k.url, "POST",
                                                  JsonValue(payload), now, rnd)
             /\ out' = CallReturn(c, k, FALSE, "none", "ok", "none", FALSE)
             /\ UNCHANGED call
        ELSE /\ call' = [call EXCEPT ![c] = [k EXCEPT !.pc = "fetch"]]
             /\ out' = NoOut
             /\ UNCHANGED requestQueue
  /\ UNCHANGED <<isOffline, now, offlineAnalytics, authToken, responseCache, explanations>>
  /\ UNCHANGED syncVars
  /\ UNCHANGED cacheVars
  /\ UNCHANGED trackVars
  /\ UNCHANGED streamVars
  /\ UNCHANGED loadVars

\* OfflineAwareAPI.trackEvent(event, properties)
TrackEvent(c, ev) ==
  /\ FreeCall(c)
  /\ QueueRoom
  /\ AnalyticsRoom
  /\ LET k == [IdleCall EXCEPT !.op = "trackEvent", !.url = "/api/analytics/track",
                               !.method = "POST",
                               !.body = JSONstringify(JsonValue(ev)), !.qio = TRUE,
                               !.ev = ev]
     IN IF isOffline
        THEN /\ offlineAnalytics' = TrackOfflineEvent(offlineAnalytics, ev, now)
             /\ out' = CallReturn(c, k, FALSE, "none", "ok", "none", FALSE)
             /\ UNCHANGED call
        ELSE /\ call' = [call EXCEPT ![c] = [k EXCEPT !.pc = "fetch"]]
             /\ out' = NoOut
             /\ UNCHANGED offlineAnalytics
  /\ UNCHANGED <<isOffline, now, requestQueue, authToken, responseCache, explanations>>
  /\ UNCHANGED syncVars
  /\ UNCHANGED cacheVars
  /\ UNCHANGED trackVars
  /\ UNCHANGED streamVars
  /\ UNCHANGED loadVars

\* Bound of the model: a call goes to the network only while what it may
\* cache fits.
StoreRoom ==
  \/ Len(explanations) + Cardinality(InFlight) < MaxStored
  \/ Len(explanations) >= MAX_EXPLANATIONS

\* OfflineAwareAPI.getExplanation(question, complexityLevel)
GetExplanation(c, asked, tier) ==
  /\ FreeCall(c)
  /\ LET k == [IdleCall EXCEPT !.op = "getExplanation", !.url = "/api/chat",
                               !.method = "POST",
                               !.body = JSONstringify(JsonValue("question")),
                               !.qio = FALSE, !.q = asked, !.tier = tier]
         cached == GetCachedExplanation(explanations, asked, tier, now)
     IN IF cached # 0
        THEN /\ out' = CallReturn(c, k, FALSE, "none", "ok",
                                      explanations[cached].answer, TRUE)
             /\ UNCHANGED call
        ELSE IF isOffline
        THEN /\ out' = CallReturn(c, k, FALSE, "none", "OFFLINE_NO_CACHE", "none", FALSE)
             /\ UNCHANGED call
        ELSE /\ StoreRoom
             /\ call' = [call EXCEPT ![c] = [k EXCEPT !.pc = "fetch"]]
             /\ out' = NoOut
  /\ UNCHANGED <<isOffline, now, authToken, responseCache, explanations>>
  /\ UNCHANGED storeVars
  /\ UNCHANGED syncVars
  /\ UNCHANGED cacheVars
  /\ UNCHANGED trackVars
  /\ UNCHANGED streamVars
  /\ UNCHANGED loadVars

\* fetch() of call c settles with resp (and, for /api/chat, with answer) and
\* the call runs to its end.
Settle(c, resp, answer, rnd) ==
  /\ call[c].pc = "fetch"
  /\ LET k == call[c]
         r == RequestOnline(k.url, k.method, k.qio, resp, responseCache, now)
         failed == r.outcome # "ok"
     IN /\ r.enqueue => MakeId(GetRequestType(k.url), now, rnd) \notin QueueIds(requestQueue)
        /\ requestQueue' =
             IF r.enqueue
             THEN GatewayQueueRequest(requestQueue, k.url, k.method, k.body, now, rnd)
             ELSE requestQueue
        /\ authToken' = (authToken /\ ~r.clearToken)
        /\ responseCache' =
             IF r.cacheIt THEN [responseCache EXCEPT ![k.url] = now] ELSE responseCache
        /\ IF k.op = "getExplanation"
           THEN IF ~failed
                THEN LET w == CacheExplanation(explanations, k.q, answer, k.tier, now)
                     IN /\ explanations' = w.store
                        /\ IF w.settled
                           THEN /\ out' = CallReturn(c, k, TRUE, resp, "ok", answer, FALSE)
                                /\ call' = [call EXCEPT ![c] = IdleCall]
                           ELSE /\ call' = [call EXCEPT ![c] = [k EXCEPT !.pc = "hung"]]
                                /\ out' = NoOut
                ELSE LET fallback == GetCachedExplanation(explanations, k.q, k.tier, now)
                     IN /\ out' =
                             IF fallback # 0
                             THEN CallReturn(c, k, TRUE, resp, "ok",
                                             explanations[fallback].answer, TRUE)
                             ELSE CallReturn(c, k, TRUE, resp, r.outcome, "none", FALSE)
                        /\ call' = [call EXCEPT ![c] = IdleCall]
                        /\ UNCHANGED explanations
           ELSE /\ call' = [call EXCEPT ![c] = IdleCall]
                /\ out' = CallReturn(c, k, TRUE, resp,
                                         IF k.op = "request" THEN r.outcome ELSE "ok",
                                         IF k.op = "request" THEN r.data ELSE "none", FALSE)
                /\ UNCHANGED explanations
        /\ offlineAnalytics' =
             IF k.op = "trackEvent" /\ failed
             THEN TrackOfflineEvent(offlineAnalytics, k.ev, now)
             ELSE offlineAnalytics
  /\ UNCHANGED <<isOffline, now>>
  /\ UNCHANGED syncVars
  /\ UNCHANGED cacheVars
  /\ UNCHANGED trackVars
  /\ UNCHANGED streamVars
  /\ UNCHANGED loadVars

\* ------------------------------------------------------------ the system
Init ==
  /\ isOffline \in BOOLEAN
  /\ now = 0
  /\ syncInterval = ~isOffline
  /\ startupTimer = ~isOffline
  /\ isSyncing = FALSE
  /\ pass = [p \in Passes |-> IdlePass]
  /\ requestQueue = {}
  /\ offlineAnalytics = <<>>
  /\ call = [c \in Calls |-> IdleCall]
  /\ authToken = TRUE
  /\ responseCache = [u \in Urls |-> -1]
  /\ explanations = <<>>
  /\ memCache = <<>>
  /\ analyticsQueue = <<>>
  /\ signal = "none"
  /\ stream = IdleStream
  /\ initialized = TRUE
  /\ persisted = <<>>
  /\ loads = <<>>
  /\ loaded = <<>>
  /\ out = NoOut

Next ==
  \/ \E offline \in BOOLEAN, p \in Passes : SetOffline(offline, p)
  \/ \E p \in Passes : SyncNow(p)
  \/ \E p \in Passes : TimerFire(p)
  \/ \E p \in Passes : StartupSync(p)
  \/ \E p \in Passes, readable \in BOOLEAN : GetQueue(p, readable)
  \/ \E p \in Passes : Item(p)
  \/ \E p \in Passes : Wake(p)
  \/ \E p \in Passes, resp \in Responses : Deliver(p, resp)
  \/ \E p \in Passes : Analytics(p)
  \/ \E p \in Passes : ClearAnalytics(p)
  \/ \E resp \in Responses : Flush(resp)
  \/ Tick
  \/ \E payload \in Payloads : RateExplanation(1, payload)
  \/ \E ev \in Events : TrackEvent(1, ev)
  \/ \E c \in Calls, resp \in HttpResponses, answer \in Answers, rnd \in Rnds :
        Settle(c, resp, answer, rnd)

Spec == Init /\ [][Next]_vars

\* The connectivity monitor and the clock.
\* The network never answers the fetch of call c: the promise of
\* fetch(url, fetchOptions), made without a signal and raced against no
\* timer, stays pending, and request() with it.
NoResponse(c) ==
  /\ call[c].pc = "fetch"
  /\ call[c].op = "request"
  /\ call' = [call EXCEPT ![c] = [@ EXCEPT !.pc = "unanswered"]]
  /\ out' = NoOut
  /\ UNCHANGED <<isOffline, now, authToken, responseCache, explanations>>
  /\ UNCHANGED syncVars
  /\ UNCHANGED storeVars
  /\ UNCHANGED cacheVars
  /\ UNCHANGED trackVars
  /\ UNCHANGED streamVars
  /\ UNCHANGED loadVars

Surroundings ==
  \/ \E offline \in BOOLEAN, p \in Passes : SetOffline(offline, p)
  \/ Tick

\* The urls direct calls of request() are made with.
RequestUrls == {"/api/user", "/api/explanations/rate"}

\* The gateway's request() called directly while connectivity comes and goes.
\* request() reads neither the queue nor the state of the sync engine, whose
\* steps are left to Spec.
NextGateway ==
  \/ Surroundings
  \/ \E url \in RequestUrls, method \in Methods, body \in Bodies,
        qio \in BOOLEAN : Request(1, url, method, body, qio)
  \/ \E c \in Calls, resp \in HttpResponses, answer \in Answers, rnd \in Rnds :
        Settle(c, resp, answer, rnd)
  \/ \E c \in Calls : NoResponse(c)

SpecGateway == Init /\ [][NextGateway]_vars

\* The questions and tiers getExplanation() is called with.
AskedQuestions == {Asked(QD, FALSE), Asked(QD, TRUE), Asked(QE, FALSE), Asked(QA, FALSE)}
AskedTiers == {"5yo", "normal"}

\* getExplanation() called, by overlapping callers, while connectivity comes
\* and goes.  It reads neither the queue nor the state of the sync engine.
NextExplain ==
  \/ Surroundings
  \/ \E c \in Calls, asked \in AskedQuestions, tier \in AskedTiers :
        GetExplanation(c, asked, tier)
  \/ \E c \in Calls, resp \in HttpResponses, answer \in Answers, rnd \in Rnds :
        Settle(c, resp, answer, rnd)

SpecExplain == Init /\ [][NextExplain]_vars

\* ------------------------------------------------- the explanation caches
\* What a lookup hands back: the entry found, or null.
NoEntry == [question |-> NoQuestion, answer |-> "none",
            complexity_level |-> "none", cached_at |-> -1]
Found(store, k) == IF k = 0 THEN NoEntry ELSE store[k]

\* The questions answers are put under, and the questions looked up.
PutQuestions == {Asked(QR1, TRUE), Asked(QR2, FALSE), Asked(QR3, FALSE)}
GetQuestions == {Asked(QR2, FALSE), Asked(QW, FALSE)}

\* put: the same entry is given to both explanation caches, CacheService.add
\* and OfflineStorage.cacheExplanation.
Put(asked, answer, tier) ==
  /\ LET w == CacheExplanation(explanations, asked, answer, tier, now)
     IN /\ explanations' = w.store
        /\ out' = [kind |-> "put", q |-> asked, tier |-> tier, answer |-> answer,
                   settled |-> w.settled]
  /\ memCache' = CacheServiceAdd(memCache, asked, answer, tier, now)
  /\ persisted' = SaveCache(memCache')
  /\ UNCHANGED <<isOffline, now, call, authToken, responseCache>>
  /\ UNCHANGED <<initialized, loads, loaded>>
  /\ UNCHANGED syncVars
  /\ UNCHANGED storeVars
  /\ UNCHANGED trackVars
  /\ UNCHANGED streamVars

\* get: both explanation caches are asked, CacheService.get and
\* OfflineStorage.getCachedExplanation.
Get(asked, tier) ==
  /\ out' = [kind |-> "get", q |-> asked, tier |-> tier,
             memory |-> Found(memCache, CacheServiceGet(memCache, asked, tier, now)),
             durable |-> Found(explanations,
                               GetCachedExplanation(explanations, asked, tier, now))]
  /\ UNCHANGED <<isOffline, now, call, authToken, responseCache, explanations>>
  /\ UNCHANGED syncVars
  /\ UNCHANGED storeVars
  /\ UNCHANGED cacheVars
  /\ UNCHANGED trackVars
  /\ UNCHANGED streamVars
  /\ UNCHANGED loadVars

\* clear: both explanation caches are emptied, CacheService.clear and
\* OfflineStorage.clearExplanations.
Clear ==
  /\ explanations # <<>> \/ memCache # <<>>
  /\ explanations' = ClearExplanations(explanations)
  /\ memCache' = CacheServiceClear(memCache)
  /\ persisted' = <<>>
  /\ out' = [kind |-> "clear"]
  /\ UNCHANGED <<isOffline, now, call, authToken, responseCache>>
  /\ UNCHANGED <<initialized, loads, loaded>>
  /\ UNCHANGED syncVars
  /\ UNCHANGED storeVars
  /\ UNCHANGED trackVars
  /\ UNCHANGED streamVars

\* The two explanation caches under the same puts, gets and clears.
NextCache ==
  \/ \E asked \in PutQuestions, answer \in Answers, tier \in AskedTiers :
        Put(asked, answer, tier)
  \/ \E asked \in GetQuestions, tier \in AskedTiers : Get(asked, tier)
  \/ Clear
  \/ Tick

SpecCache == Init /\ [][NextCache]_vars

\* ------------------------------------------- CacheService before its load
\* What chrome.storage.local holds when the service is constructed: nothing, or
\* the one entry an earlier session left.
StoredAtStart ==
  {<<>>,
   <<[question |-> QR3, answer |-> "a2", complexity_level |-> "5yo", cached_at |-> 0]>>}

\* The questions answers are added under.
AddQuestions == {Asked(QR1, TRUE), Asked(QR2, FALSE)}

NoAdd == [kind |-> "none"]

\* A loadCache() call: the value its chrome.storage.local.get() returns (the
\* value stored when the get was issued; ok is FALSE when the get rejects) and
\* the add() that awaits it, NoAdd for the constructor's load.
LoadCache(result, ok, add) == [result |-> result, ok |-> ok, add |-> add]

\* new CacheService(): initialized is false and the constructor's
\* initialize() has issued its loadCache().
InitLoad ==
  /\ isOffline \in BOOLEAN
  /\ now = 0
  /\ syncInterval = ~isOffline
  /\ startupTimer = ~isOffline
  /\ isSyncing = FALSE
  /\ pass = [p \in Passes |-> IdlePass]
  /\ requestQueue = {}
  /\ offlineAnalytics = <<>>
  /\ call = [c \in Calls |-> IdleCall]
  /\ authToken = TRUE
  /\ responseCache = [u \in Urls |-> -1]
  /\ explanations = <<>>
  /\ memCache = <<>>
  /\ analyticsQueue = <<>>
  /\ signal = "none"
  /\ stream = IdleStream
  /\ initialized = FALSE
  /\ persisted \in StoredAtStart
  /\ \E ok \in BOOLEAN : loads = <<LoadCache(persisted, ok, NoAdd)>>
  /\ loaded = <<>>
  /\ out = NoOut

\* add(question, answer, complexityLevel): before the service is initialized
\* it awaits a loadCache() of its own; once initialized it filters, unshifts,
\* slices and saves without yielding.
Add(asked, answer, tier, ok) ==
  /\ IF ~initialized
       THEN /\ Len(loads) + Len(loaded) < MaxLoads
            /\ loads' = Append(loads,
                   LoadCache(persisted, ok,
                     [kind |-> "add", q |-> asked, answer |-> answer, tier |-> tier]))
            /\ UNCHANGED <<memCache, persisted>>
       ELSE /\ memCache' = CacheServiceAdd(memCache, asked, answer, tier, now)
            /\ persisted' = SaveCache(memCache')
            /\ UNCHANGED loads
  /\ out' = NoOut
  /\ UNCHANGED <<initialized, loaded>>
  /\ UNCHANGED <<isOffline, now, call, authToken, responseCache, explanations>>
  /\ UNCHANGED syncVars
  /\ UNCHANGED storeVars
  /\ UNCHANGED trackVars
  /\ UNCHANGED streamVars

\* The oldest pending chrome.storage.local.get() settles and loadCache()
\* resumes: this.cache = result[CACHE_KEY] || [], then cleanExpiredItems(),
\* which saves when it removed something; a rejected get leaves this.cache = [].
LoadResolves ==
  /\ loads # <<>>
  /\ LET load == Head(loads)
         cleaned == CleanExpiredItems(load.result, now)
     IN /\ memCache' = IF load.ok THEN cleaned ELSE <<>>
        /\ persisted' = IF load.ok /\ Len(cleaned) < Len(load.result)
                          THEN SaveCache(cleaned) ELSE persisted
        /\ loaded' = Append(loaded, load)
  /\ loads' = Tail(loads)
  /\ out' = NoOut
  /\ UNCHANGED initialized
  /\ UNCHANGED <<isOffline, now, call, authToken, responseCache, explanations>>
  /\ UNCHANGED syncVars
  /\ UNCHANGED storeVars
  /\ UNCHANGED trackVars
  /\ UNCHANGED streamVars

\* initialize() resumes after its loadCache(): this.initialized = true; the
\* add() that awaited it then runs to its saveCache().
Continue ==
  /\ loaded # <<>>
  /\ initialized' = TRUE
  /\ LET add == Head(loaded).add
     IN IF add.kind = "add"
        THEN /\ memCache' = CacheServiceAdd(memCache, add.q, add.answer, add.tier, now)
             /\ persisted' = SaveCache(memCache')
        ELSE UNCHANGED <<memCache, persisted>>
  /\ loaded' = Tail(loaded)
  /\ out' = NoOut
  /\ UNCHANGED loads
  /\ UNCHANGED <<isOffline, now, call, authToken, responseCache, explanations>>
  /\ UNCHANGED syncVars
  /\ UNCHANGED storeVars
  /\ UNCHANGED trackVars
  /\ UNCHANGED streamVars

\* CacheService from its construction on, under adds that may come before the
\* load has completed.
NextLoad ==
  \/ \E asked \in AddQuestions, answer \in Answers, ok \in BOOLEAN :
        Add(asked, answer, "5yo", ok)
  \/ LoadResolves
  \/ Continue
  \/ Tick

SpecLoad == InitLoad /\ [][NextLoad]_vars

\* getExplanation() over a durable store that puts fill up to its capacity.
NextBestEffort ==
  \/ \E asked \in PutQuestions : Put(asked, "a1", "5yo")
  \/ \E asked \in GetQuestions, tier \in AskedTiers : GetExplanation(1, asked, tier)
  \/ \E c \in Calls, resp \in HttpResponses, answer \in Answers, rnd \in Rnds :
        Settle(c, resp, answer, rnd)

SpecBestEffort == Init /\ [][NextBestEffort]_vars

\* --------------------------------------------------------- streaming
\* The callbacks a step of streamChatResponse() makes: onToken tokens times,
\* then onComplete or onError.
Callbacks(tokens, complete, error) ==
  [kind |-> "stream", onToken |-> tokens, onComplete |-> complete,
   onError |-> error]

\* createStreamCanceller(): a fresh controller, whose signal the caller holds.
CreateStreamCanceller ==
  /\ signal = "none"
  /\ stream.pc = "idle"
  /\ signal' = "ready"
  /\ out' = NoOut
  /\ UNCHANGED <<isOffline, now, stream>>
  /\ UNCHANGED syncVars
  /\ UNCHANGED storeVars
  /\ UNCHANGED gatewayVars
  /\ UNCHANGED cacheVars
  /\ UNCHANGED trackVars
  /\ UNCHANGED loadVars

\* cancel(): controller.abort().  The 'abort' listener, if streamChatResponse
\* has registered it by now, aborts the controller of the fetch.
Cancel ==
  /\ signal = "ready"
  /\ signal' = "aborted"
  /\ stream' = IF stream.linked THEN [stream EXCEPT !.aborted = TRUE] ELSE stream
  /\ out' = NoOut
  /\ UNCHANGED <<isOffline, now>>
  /\ UNCHANGED syncVars
  /\ UNCHANGED storeVars
  /\ UNCHANGED gatewayVars
  /\ UNCHANGED cacheVars
  /\ UNCHANGED trackVars
  /\ UNCHANGED loadVars

\* streamChatResponse(question, level, history, options) up to its first
\* await, options.signal being the caller's signal or absent.
StreamChatResponse(withSignal) ==
  /\ stream.pc = "idle"
  /\ withSignal => signal # "none"
  /\ stream' = [IdleStream EXCEPT !.pc = "token", !.signal = withSignal]
  /\ out' = NoOut
  /\ UNCHANGED <<isOffline, now, signal>>
  /\ UNCHANGED syncVars
  /\ UNCHANGED storeVars
  /\ UNCHANGED gatewayVars
  /\ UNCHANGED cacheVars
  /\ UNCHANGED trackVars
  /\ UNCHANGED loadVars

\* The call returns: its canceller is of no further use.
StreamEnds(callbacks) ==
  /\ stream' = IdleStream
  /\ signal' = "none"
  /\ out' = callbacks

\* apiClient.getAccessToken() resolves.  Without a token the call ends in
\* onError; with one the 'abort' listener is added to the signal (which does
\* not fire for a signal aborted already) and fetch is issued.
AccessToken(token) ==
  /\ stream.pc = "token"
  /\ IF ~token
     THEN StreamEnds(Callbacks(0, FALSE, TRUE))
     ELSE /\ stream' = [stream EXCEPT !.pc = "fetch", !.linked = stream.signal]
          /\ out' = NoOut
          /\ UNCHANGED signal
  /\ UNCHANGED <<isOffline, now>>
  /\ UNCHANGED syncVars
  /\ UNCHANGED storeVars
  /\ UNCHANGED gatewayVars
  /\ UNCHANGED cacheVars
  /\ UNCHANGED trackVars
  /\ UNCHANGED loadVars

\* fetch(.../api/chat, {signal: controller.signal}) settles: it rejects with
\* AbortError when the controller was aborted, and the catch returns quietly;
\* a response that is not ok and a network error end in onError.
StreamFetch(resp) ==
  /\ stream.pc = "fetch"
  /\ IF stream.aborted
     THEN StreamEnds(Callbacks(0, FALSE, FALSE))
     ELSE IF resp = "ok"
     THEN /\ stream' = [stream EXCEPT !.pc = "read"]
          /\ out' = NoOut
          /\ UNCHANGED signal
     ELSE StreamEnds(Callbacks(0, FALSE, TRUE))
  /\ UNCHANGED <<isOffline, now>>
  /\ UNCHANGED syncVars
  /\ UNCHANGED storeVars
  /\ UNCHANGED gatewayVars
  /\ UNCHANGED cacheVars
  /\ UNCHANGED trackVars
  /\ UNCHANGED loadVars

\* reader.read() settles: it rejects with AbortError when the controller was
\* aborted; a chunk of lines tokens calls onToken for each; done calls
\* onComplete(fullResponse).
Read(lines, done) ==
  /\ stream.pc = "read"
  /\ IF stream.aborted
     THEN StreamEnds(Callbacks(0, FALSE, FALSE))
     ELSE IF done
     THEN StreamEnds(Callbacks(0, TRUE, FALSE))
     ELSE /\ stream.fullResponse + lines <= MaxTokens
          /\ stream' = [stream EXCEPT !.fullResponse = @ + lines]
          /\ out' = Callbacks(lines, FALSE, FALSE)
          /\ UNCHANGED signal
  /\ UNCHANGED <<isOffline, now>>
  /\ UNCHANGED syncVars
  /\ UNCHANGED storeVars
  /\ UNCHANGED gatewayVars
  /\ UNCHANGED cacheVars
  /\ UNCHANGED trackVars
  /\ UNCHANGED loadVars

\* A streamed explanation request and its canceller, while the clock runs.
NextStream ==
  \/ CreateStreamCanceller
  \/ Cancel
  \/ \E withSignal \in BOOLEAN : StreamChatResponse(withSignal)
  \/ \E token \in BOOLEAN : AccessToken(token)
  \/ \E resp \in Responses : StreamFetch(resp)
  \/ \E lines \in 1..MaxTokens, done \in BOOLEAN : Read(lines, done)
  \/ Tick

SpecStream == Init /\ [][NextStream]_vars

\* ------------------------------------------------------------------ C1
\* An invocation of syncNow() in slot p starts and returns at once in this step.
ImmediateReturn(p) ==
  /\ pass[p].pc = "idle"
  /\ out'.kind = "return"
  /\ out'.p = p

ActivePasses == {p \in Passes : pass[p].pc # "idle"}

\* C1: at most one sync pass is active at any moment; an invocation of
\* syncNow() made while a pass is in flight returns {success 0, failed 0,
\* errors []} at once, starts nothing and leaves the queue alone, so no entry
\* is ever being delivered by two invocations.
C1_SingleFlight ==
  /\ [](Cardinality(ActivePasses) <= 1)
  /\ [](ActivePasses # {} => isSyncing)
  /\ [][\A p \in Passes :
          /\ (isSyncing /\ pass[p].pc = "idle") => pass'[p].pc = "idle"
          /\ (isSyncing /\ ImmediateReturn(p)) =>
                /\ out'.result = EmptyResult
                /\ out'.published = <<>>
                /\ UNCHANGED <<requestQueue, offlineAnalytics, pass, isSyncing>>]_vars

\* An invocation has just been turned away while a pass was waiting on fetch.
C1_Witness ==
  /\ out.kind = "return"
  /\ out.why = "busy"
  /\ \E p \in Passes : pass[p].pc = "fetch" /\ p # out.p

\* ------------------------------------------------------------------ C2
\* The pass in slot p takes a step.
PassStep(p) == pass'[p] # pass[p]

Handled(ps) ==
  CASE ps.pc \in {"idle", "getQueue"} -> 0
    [] ps.pc \in {"item", "sleep"} -> ps.i - 1
    [] ps.pc = "fetch" -> ps.i
    [] OTHER -> Len(ps.queue)

\* The ids of the entries among the first n of the snapshot that are below
\* the retry limit, in snapshot order.
Eligible(ps, n) ==
  LET below == SelectSeq(SubSeq(ps.queue, 1, n), LAMBDA e : e.retries < MAX_RETRIES)
  IN [k \in 1..Len(below) |-> below[k].id]

C4_OfflineSyncNow ==
  [][\A p \in Passes :
       (pass[p].pc = "idle" /\ isOffline' /\ out'.kind \in {"return", "started"}
          /\ out'.p = p) =>
         /\ out'.kind = "return"
         /\ out'.result = EmptyResult
         /\ UNCHANGED <<requestQueue, offlineAnalytics, pass, call, isSyncing>>]_vars

\* syncNow() has just returned for being offline, with entries in the queue
\* and events in the offline-analytics store.
C4_Witness ==
  /\ out.kind = "return"
  /\ out.why = "offline"
  /\ isOffline
  /\ ~isSyncing
  /\ requestQueue # {}
  /\ offlineAnalytics # <<>>

\* ------------------------------------------------------------------ C5
OldestFirst(queue) ==
  \A i, j \in 1..Len(queue) : i < j => queue[i].timestamp <= queue[j].timestamp

\* C5: the queue listing returns the entries oldest-enqueued first, and a pass
\* attempts them in that order, whatever their kinds.
C5_OldestFirst ==
  /\ OldestFirst(GetQueuedRequests(requestQueue))
  /\ \A p \in Passes : OldestFirst(pass[p].queue)

\* ----------------------------------------------------------------- C10
\* The monitor publishes the transition from offline to online in this step.
BackOnline == isOffline /\ ~isOffline'

PassStarts == \E p \in Passes : pass[p].pc = "idle" /\ pass'[p].pc = "getQueue"

\* The pass in slot p is still to reach the entry id: it has not read the
\* queue yet, or the entry is in its snapshot at or after its position.
StillToReach(p, id) ==
  \/ pass[p].pc = "getQueue"
  \/ /\ pass[p].pc \in {"item", "sleep", "fetch"}
     /\ \E k \in pass[p].i..Len(pass[p].queue) : pass[p].queue[k].id = id

\* C10 as stated, read generously: when the monitor publishes the transition
\* from offline to online with a rating entry queued, a sync pass starts (or
\* the pass in flight is still to reach that entry).
C10_PassStartsOnReconnect ==
  [][\A e \in requestQueue :
       (BackOnline /\ e.type = "rating") =>
          (PassStarts \/ \E p \in Passes : StillToReach(p, e.id))]_vars

\* C10, amended: a rating submitted while offline adds exactly one rating
\* entry to the queue; when the monitor publishes the transition to online a
\* sync pass starts unless one is still in flight; a successful delivery of
\* the entry removes it, and the queue size reported is then 0 if nothing
\* else was queued.
C10_RatingRoundTrip ==
  [][/\ (isOffline /\ out'.kind = "call" /\ out'.op = "rateExplanation"
          /\ call[out'.c].pc = "idle") =>
         \E e \in requestQueue' \ requestQueue :
           /\ requestQueue' = requestQueue \cup {e}
           /\ e.type = "rating" /\ e.retries = 0
           /\ e.url = out'.url /\ e.method = "POST"
           /\ JSONstringify(e.body) = out'.body
     /\ (BackOnline /\ ~isSyncing) => (PassStarts /\ isSyncing')
     /\ (BackOnline /\ isSyncing) => ~PassStarts
     /\ (out'.kind = "delivered" /\ out'.resp = "ok" /\ out'.id.type = "rating"
          /\ out'.id \in QueueIds(requestQueue)) =>
         /\ out'.id \notin QueueIds(requestQueue')
         /\ QueueTotal(requestQueue') = QueueTotal(requestQueue) - 1
         /\ (Cardinality(requestQueue) = 1 => QueueTotal(requestQueue') = 0)]_vars

\* The rating entry has just been delivered and the queue is empty.
C10_Witness ==
  /\ out.kind = "delivered"
  /\ out.resp = "ok"
  /\ out.id.type = "rating"
  /\ ~isOffline
  /\ QueueTotal(requestQueue) = 0

\* ------------------------------------------------------------------ C6
\* A direct call of request() ends for its caller in this step.
RequestEnds == out'.kind = "call" /\ out'.op = "request"

\* C6: request() called while offline with a non-idempotent method and
\* queueIfOffline = true makes no network call, adds exactly one entry to the
\* queue (retry count 0, the call's endpoint, method and body) and fails with
\* the outcome QUEUED_OFFLINE, which no other path of request() produces.
C6_OfflineWriteQueued ==
  /\ []((out.kind = "call" /\ out.outcome = "QUEUED_OFFLINE") =>
          (~out.online /\ out.qio /\ out.method # "GET"))
  /\ [][/\ isOffline => \A c \in Calls : call[c].pc = "idle" => call'[c].pc = "idle"
        /\ (isOffline /\ RequestEnds /\ call[out'.c].pc = "idle"
             /\ out'.method = "POST" /\ out'.qio) =>
             /\ UNCHANGED call
             /\ ~out'.online
             /\ out'.outcome = "QUEUED_OFFLINE"
             /\ \E e \in requestQueue' \ requestQueue :
                   /\ requestQueue' = requestQueue \cup {e}
                   /\ e.retries = 0
                   /\ e.url = out'.url
                   /\ e.method = out'.method
                   /\ e.body = IF out'.body = NoBody THEN NullBody
                                ELSE JSONparse(out'.body)]_vars

\* An offline POST with a body has just been turned into the second queued entry.
C6_Witness ==
  /\ out.kind = "call"
  /\ out.op = "request"
  /\ out.method = "POST"
  /\ out.body # NoBody
  /\ out.outcome = "QUEUED_OFFLINE"
  /\ isOffline
  /\ Cardinality(requestQueue) = 2

\* ------------------------------------------------------------------ C7
\* C7: a request() whose method is GET or is omitted never adds an entry to
\* the queue, offline or online; only calls with a non-idempotent method and
\* queueIfOffline = true do.
C7_ReadsNeverQueued ==
  [][RequestEnds =>
       /\ out'.method \in {"GET", "none"} => requestQueue' = requestQueue
       /\ requestQueue' # requestQueue => (out'.method = "POST" /\ out'.qio)]_vars

\* ------------------------------------------------------------------ C8
\* C8: when the server answers an online request() with 401, the stored token
\* is removed and the caller gets UNAUTHORIZED, whatever the method (here: of
\* the calls that name one) and whatever queueIfOffline: the failure is not
\* reported as queued, adds no queue entry and is not answered from the
\* response cache.
C8_Unauthorized ==
  [][(RequestEnds /\ out'.resp = "401" /\ out'.method \in {"GET", "POST"}) =>
       /\ ~authToken'
       /\ out'.outcome = "UNAUTHORIZED"
       /\ requestQueue' = requestQueue
       /\ out'.data # "cache"]_vars

\* ------------------------------------------------------------------ C9
\* getExplanation() has just returned an answer it got from the network.
NetworkAnswer ==
  /\ out.kind = "call"
  /\ out.op = "getExplanation"
  /\ out.outcome = "ok"
  /\ ~out.fromCache

ScoreOne(E, q, tier, t) ==
  {k \in 1..Len(E) :
     /\ t - E[k].cached_at <= CACHE_EXPIRY
     /\ E[k].complexity_level = tier
     /\ \/ E[k].question = q
        \/ /\ SignificantWords(E[k].question) = SignificantWords(q)
           /\ SignificantWords(q) # {}}

\* The live entries stored for exactly (q, tier).
LiveExact(E, q, tier, t) == {k \in ScoreOne(E, q, tier, t) : E[k].question = q}

\* The entry of K that comes first in the question index.
FirstInIndex(E, K) ==
  CHOOSE k \in K : \A o \in K \ {k} :
    \/ QuestionLess(E[k].question, E[o].question)
    \/ E[k].question = E[o].question /\ k < o

MemoryGet(asked, tier) ==
  Found(memCache, CacheServiceGet(memCache, asked, tier, now))
DurableGet(asked, tier) ==
  Found(explanations, GetCachedExplanation(explanations, asked, tier, now))

\* C11: put(q, tier, a) followed immediately by get(q, tier) returns a,
\* whatever the cache held before, in CacheService and in the durable store.
C11_ReadYourWrite ==
  out.kind = "put" =>
    /\ MemoryGet(out.q, out.tier).answer = out.answer
    /\ DurableGet(out.q, out.tier).answer = out.answer

\* ----------------------------------------------------------------- C12
\* The positions of the live entries of a store for the pair (q, tier).
LivePair(store, q, tier, window) ==
  {k \in 1..Len(store) :
     /\ store[k].question = q
     /\ store[k].complexity_level = tier
     /\ now - store[k].cached_at <= window}

\* C12: each explanation cache holds at most one live entry per exact
\* (normalized question, tier) pair: a put for a pair that has an entry
\* replaces it.
C12_OneLiveEntryPerPair ==
  /\ \A k \in 1..Len(memCache) :
       Cardinality(LivePair(memCache, memCache[k].question,
                            memCache[k].complexity_level, SERVICE_CACHE_EXPIRY)) <= 1
  /\ \A k \in 1..Len(explanations) :
       Cardinality(LivePair(explanations, explanations[k].question,
                            explanations[k].complexity_level, CACHE_EXPIRY)) <= 1

\* ----------------------------------------------------------------- C13
\* No entry of the store is for the pair (q, tier).
Distinct(store, q, tier) ==
  \A k \in 1..Len(store) :
    ~(store[k].question = q /\ store[k].complexity_level = tier)

\* The entries of the store are for pairwise different (question, tier) pairs.
AllDistinct(store) ==
  \A j, k \in 1..Len(store) :
    (store[j].question = store[k].question
       /\ store[j].complexity_level = store[k].complexity_level) => j = k

\* The entry a put of the step stores.
PutEntry ==
  [question |-> Normalize(out'.q), answer |-> out'.answer,
   complexity_level |-> out'.tier, cached_at |-> now]

\* C13: a cache of capacity N never holds more than N entries, and a put of
\* one more distinct entry into a cache full of N distinct entries leaves
\* exactly N: the entry inserted
\* first is evicted and the new one is stored (N = MAX_CACHE_SIZE for
\* CacheService, MAX_EXPLANATIONS for the durable store).
C13_Capacity ==
  [][out'.kind = "put" =>
       /\ Len(memCache') <= MAX_CACHE_SIZE
       /\ Len(explanations') <= MAX_EXPLANATIONS
       /\ (Len(memCache) = MAX_CACHE_SIZE
            /\ Distinct(memCache, Normalize(out'.q), out'.tier))
          => memCache' = <<PutEntry>> \o SubSeq(memCache, 1, MAX_CACHE_SIZE - 1)
       /\ (Len(explanations) = MAX_EXPLANATIONS
            /\ AllDistinct(explanations)
            /\ Distinct(explanations, Normalize(out'.q), out'.tier))
          => explanations' = Append(Tail(explanations), PutEntry)]_vars

\* ----------------------------------------------------------------- C14
\* The questions looked up.
LookupQuestions ==
  {Asked(QR1, FALSE), Asked(QR2, FALSE), Asked(QR3, FALSE), Asked(QW, FALSE)}

\* C14: whatever a cache holds, get(question, tier) returns, on the exact
\* path as on the fuzzy path, nothing or an entry stored under the requested
\* tier that has not expired.
C14_TierAndExpiryIsolation ==
  \A asked \in LookupQuestions, tier \in AskedTiers :
    /\ MemoryGet(asked, tier) # NoEntry =>
         /\ MemoryGet(asked, tier).complexity_level = tier
         /\ now - MemoryGet(asked, tier).cached_at <= SERVICE_CACHE_EXPIRY
    /\ DurableGet(asked, tier) # NoEntry =>
         /\ DurableGet(asked, tier).complexity_level = tier
         /\ now - DurableGet(asked, tier).cached_at <= CACHE_EXPIRY

\* A get that returned nothing from either cache although each holds an
\* expired entry for the very question and tier and a live entry for a
\* similar question under another tier.
C14_Witness ==
  /\ out.kind = "get"
  /\ out.memory = NoEntry
  /\ out.durable = NoEntry
  /\ \A store \in {memCache, explanations} :
       /\ \E k \in 1..Len(store) :
            /\ store[k].question = Normalize(out.q)
            /\ store[k].complexity_level = out.tier
            /\ store[k].cached_at < now
       /\ \E k \in 1..Len(store) :
            /\ IsSimilar(Normalize(out.q), store[k].question)
            /\ store[k].complexity_level # out.tier
            /\ store[k].cached_at = now

\* ----------------------------------------------------------------- C15
\* The durable store holds a live entry for the question q under the tier.
HoldsLive(q, tier) == LivePair(explanations, q, tier, CACHE_EXPIRY) # {}

\* C15: in the explanation cache that getExplanation consults, after
\* put("explain how rockets work", t, A) the lookup get("explain how rockets
\* function", t) returns an entry, and a lookup never returns an entry that
\* shares no significant word with the query, so that get("what is the
\* weather today", t) returns nothing from a cache of rocket questions.
C15_FuzzyHit ==
  out.kind = "get" =>
    /\ (Normalize(out.q) = QR2 /\ HoldsLive(QR1, out.tier))
         => out.durable # NoEntry
    /\ out.durable # NoEntry
         => SignificantWords(out.durable.question)
              \cap SignificantWords(Normalize(out.q)) # {}

\* ----------------------------------------------------------------- C16
\* The word overlap CacheService.isSimilar computes for two questions, as
\* the pair <<shared words, words of the smaller set>>.
Overlap(q1, q2) ==
  LET words1 == SignificantWords(q1)
      words2 == SignificantWords(q2)
  IN <<Cardinality(words1 \cap words2),
       IF Cardinality(words1) < Cardinality(words2)
       THEN Cardinality(words1) ELSE Cardinality(words2)>>

\* The fraction a is smaller than the fraction b (denominators positive).
Lower(a, b) == a[1] * b[2] < b[1] * a[2]

\* The positions of memCache holding a live entry of the tier similar to q.
Candidates(q, tier) ==
  {k \in 1..Len(memCache) :
     /\ memCache[k].complexity_level = tier
     /\ now - memCache[k].cached_at <= SERVICE_CACHE_EXPIRY
     /\ IsSimilar(q, memCache[k].question)}

\* C16: CacheService.get returns the live exact match when there is one;
\* otherwise the live same-tier candidate with the highest similarity score
\* among those above the threshold, the first in iteration order among equal
\* scores, and nothing when no candidate is above the threshold.
C16_BestCandidate ==
  \A asked \in LookupQuestions, tier \in AskedTiers :
    LET q == Normalize(asked)
        got == CacheServiceGet(memCache, asked, tier, now)
    IN IF LivePair(memCache, q, tier, SERVICE_CACHE_EXPIRY) # {}
       THEN got \in LivePair(memCache, q, tier, SERVICE_CACHE_EXPIRY)
       ELSE IF Candidates(q, tier) = {}
       THEN got = 0
       ELSE /\ got \in Candidates(q, tier)
            /\ \A k \in Candidates(q, tier) :
                 /\ ~Lower(Overlap(q, memCache[got].question),
                           Overlap(q, memCache[k].question))
                 /\ Overlap(q, memCache[got].question)
                      = Overlap(q, memCache[k].question) => got <= k

\* ----------------------------------------------------------------- C17
\* C17: a sync pass that ran publishes exactly one final status: success(n)
\* only when n > 0 items succeeded and none failed, partial(success, failed)
\* when some failed, idle when nothing was attempted; success is never
\* published for a pass in which an item failed.
C17_OneFinalStatus ==
  (out.kind = "return" /\ out.why = "pass") =>
    /\ Len(out.published) = 1
    /\ out.published[1].status = "success"
         => (out.result.success > 0 /\ out.result.failed = 0)
    /\ out.published[1].status = "partial" => out.result.failed > 0
    /\ out.published[1].status = "idle"
         => (out.result.success = 0 /\ out.result.failed = 0)

\* ----------------------------------------------------------------- C18
\* C18: a sync pass that could not read the queue publishes an error status,
\* neither idle nor success, and leaves every queue entry and its retry count
\* as they were.
C18_ReadFailureReported ==
  [][\A p \in Passes :
       /\ (pass[p].pc = "getQueue" /\ pass'[p].readFailed)
            => requestQueue' = requestQueue
       /\ (pass[p].readFailed /\ out'.kind = "return" /\ out'.p = p
              /\ out'.why = "pass")
            => /\ requestQueue' = requestQueue
               /\ Len(out'.published) = 1
               /\ out'.published[1].status = "error"]_vars

\* ----------------------------------------------------------------- C19
\* The stored record is one of the events.
Among(analytic, events) ==
  \E k \in 1..Len(events) : events[k] = Tracked(analytic)

\* The records of the store before the step that the step removes.
Removed ==
  {k \in 1..Len(offlineAnalytics) :
     \A j \in 1..Len(offlineAnalytics') : offlineAnalytics'[j] # offlineAnalytics[k]}

\* C19: an offline analytics event leaves the durable analytics store only
\* once it has been sent successfully, so never while it still waits to be
\* sent; an event whose sending fails (no connectivity at the time of the
\* send, a response that is not 2xx, a network error) is still in the store.
C19_RemovedOnlyWhenSent ==
  [][/\ \A k \in Removed : ~Among(offlineAnalytics[k], analyticsQueue')
     /\ (out'.kind = "flush" /\ out'.resp # "ok") =>
          \A k \in 1..Len(analyticsQueue) :
            \E j \in 1..Len(offlineAnalytics') :
              Tracked(offlineAnalytics'[j]) = analyticsQueue[k]]_vars

\* ----------------------------------------------------------------- C20
\* Call c ends for its caller in a step of the gateway.
Completes(c) == NextGateway /\ call'[c].pc = "idle"

\* C20: a call of request() whose network attempt is never answered can
\* still complete: a timeout ends the attempt as a network failure, so the
\* call does not stay pending.
C20_TimeoutBounds ==
  \A c \in Calls : call[c].pc = "unanswered" => ENABLED Completes(c)

\* ----------------------------------------------------------------- C21
\* The step settles the first network attempt of call c of request() with a
\* network error (fetch rejects).
FirstAttemptFails(c) ==
  /\ call[c].pc = "fetch"
  /\ call[c].op = "request"
  /\ out'.kind = "call"
  /\ out'.c = c
  /\ out'.resp = "neterr"

\* C21: a single failed network attempt of an online request() neither
\* enqueues the request nor surfaces the failure: the call goes on (to a
\* retry) with the queue as it was.
C21_RetriedBeforeQueued ==
  [][\A c \in Calls :
       FirstAttemptFails(c) =>
         /\ call'[c].pc # "idle"
         /\ requestQueue' = requestQueue]_vars

\* ----------------------------------------------------------------- C22
\* C22: once the signal the caller passed to streamChatResponse() has been
\* aborted, at whatever point of the call, the call makes no onToken,
\* onComplete or onError callback, and the request queue and the explanation
\* caches stay as they are.
C22_CancelSilences ==
  [][(signal = "aborted" /\ stream.signal /\ stream.pc # "idle") =>
       /\ out'.kind = "stream" =>
            (out'.onToken = 0 /\ ~out'.onComplete /\ ~out'.onError)
       /\ UNCHANGED <<requestQueue, explanations, memCache>>]_vars

\* ----------------------------------------------------------------- C23
\* C23: a put never fails or holds up the getExplanation() call that made
\* it: once the network has returned the answer the call completes, also
\* when the store is at capacity at the time of the write, so no call is left
\* waiting for cacheExplanation().
C23_PutNeverHoldsCall ==
  \A c \in Calls : call[c].op = "getExplanation" => call[c].pc # "hung"

\* ----------------------------------------------------------------- C24
\* C24: the request queue never holds more than MAX_QUEUE_SIZE entries,
\* whatever is enqueued.
C24_QueueBounded == Cardinality(requestQueue) <= MAX_QUEUE_SIZE

\* ----------------------------------------------------------------- C25
\* C25: the queue drains without a manual syncNow() once the monitor reports
\* online: whenever the monitor reports online and entries are queued, a sync
\* pass is running or a trigger that will start one (the periodic timer, the
\* startup timer) is armed.
C25_DrainTriggerArmed ==
  (~isOffline /\ requestQueue # {}) =>
     (isSyncing \/ syncInterval \/ startupTimer)

\* ----------------------------------------------------------------- C26
\* The stored entry with the id, as a set (empty when it is not queued).
Stored(Q, id) == {e \in Q : e.id = id}

\* Pass p sends the entry it stands at in this step: a delivery attempt starts.
AttemptStarts(p) ==
  /\ pass[p].pc \in {"item", "sleep"}
  /\ pass'[p].pc = "fetch"

C27_NoAttemptWhileOffline ==
  [][isOffline =>
       /\ \A p \in Passes : ~AttemptStarts(p)
       /\ \A e \in requestQueue :
            \A f \in Stored(requestQueue', e.id) : f.retries = e.retries]_vars

\* ----------------------------------------------------------------- C28
\* Pass p ends its clearOfflineAnalytics() in this step.
ClearEnds(p) == pass[p].pc = "clear" /\ pass'[p].pc # "clear"

\* C28: an analytics event stored while a pass is between reading and
\* clearing the offline-analytics store is not lost: what the clearing step
\* removes was handed to the sender by the pass, so every record stored after
\* the pass read the store is still there.
C28_LateEventKept ==
  [][\A p \in Passes :
       ClearEnds(p) =>
         \A k \in (Len(pass[p].analytics) + 1)..Len(offlineAnalytics) :
           \E j \in 1..Len(offlineAnalytics') :
             offlineAnalytics'[j] = offlineAnalytics[k]]_vars

\* ----------------------------------------------------------------- C29
\* The records the step adds to the request queue and to the
\* offline-analytics store, taken together.
Deferred ==
  Cardinality(requestQueue' \ requestQueue)
    + (Len(offlineAnalytics') - Len(offlineAnalytics))

\* C29: a trackEvent() call whose send fails while online defers its event
\* once: it adds one record in total to the request queue and the
\* offline-analytics store.
C29_DeferredOnce ==
  [][\A c \in Calls :
       (call[c].op = "trackEvent" /\ call[c].pc = "fetch"
          /\ out'.kind = "call" /\ out'.c = c /\ out'.resp # "200")
         => Deferred = 1]_vars

\* --------------------------------------------------------- claim C30
\* The entry of M, if any, that holds the answer item holds for its pair.
Holds(M, item) ==
  \E i \in 1..Len(M) :
     /\ M[i].question = item.question
     /\ M[i].complexity_level = item.complexity_level
     /\ M[i].answer = item.answer

\* add() resumes after a loadCache() that succeeded, as did every load whose
\* caller has yet to resume.
AddResumes ==
  /\ loaded # <<>>
  /\ loaded' = Tail(loaded)
  /\ Head(loaded).add.kind = "add"
  /\ \A i \in 1..Len(loaded) : loaded[i].ok

\* C30: there is no lost update between overlapping CacheService.add calls
\* for different pairs, adds issued before the initial load has completed
\* included: when an add completes, every unexpired answer that was persisted
\* under another pair, in a cache with room for one more, is still persisted
\* and still in the in-memory cache.
C30_NoLostUpdate ==
  [][AddResumes =>
       \A i \in 1..Len(persisted) :
          (/\ ~IsExpired(persisted[i], now)
           /\ Len(persisted) < MAX_CACHE_SIZE
           /\ ~(/\ persisted[i].question = Normalize(Head(loaded).add.q)
                /\ persisted[i].complexity_level = Head(loaded).add.tier))
          => Holds(persisted', persisted[i]) /\ Holds(memCache', persisted[i])]_vars

====
